---- MODULE Spec2Model ----
(***************************************************************************)
(* Model of silo's WindowManager (src/windowmanager.py): the fixed list of *)
(* curses windows, the heap-based redraw queue and the two redraw paths.   *)
(*                                                                         *)
(* A curses window is modelled by its handle (a string).  The display      *)
(* backend is modelled by `screen`, the log of backend calls made by the   *)
(* most recent WindowManager call: a window handle stands for that         *)
(* window's noutrefresh(), DOUPDATE for curses.doupdate().                 *)
(***************************************************************************)
EXTENDS Integers, Sequences, FiniteSets, TLC

VARIABLES
    windows,            \* self.windows, bottom to top
    is_recompose_main,  \* self.is_recompose_main
    redraw_queue,       \* self._redraw_queue: a heapq array of (index, window)
    screen,             \* backend calls made by the most recent call, in order
    last_call,          \* the most recent call: [op, window]
    raised,             \* exception raised by the most recent call, or NoError
    requests,           \* windows successfully queued since the last redraw_queued
    served              \* the requests the most recent call drained, in arrival order

vars == <<windows, is_recompose_main, redraw_queue, screen, last_call, raised,
          requests, served>>

\* Longest redraw queue explored (queue_redraw itself has no limit).
MaxQueue == 5

DOUPDATE == "doupdate"
NoError == "none"
ValueError == "ValueError"
NoWindow == "-"

\* The four windows create_windows hands to the constructor, in its order.
Registry == <<"stdscr", "container_window", "main_window", "status_window">>

\* A window that was never registered (e.g. a selection pop-up).
ForeignWindows == {"select_window"}

\* Every window handle a caller may pass to queue_redraw.
Handles == {Registry[i] : i \in 1..Len(Registry)} \cup ForeignWindows

----------------------------------------------------------------------------
(* list.index and tuple comparison, as used at queue_redraw *)

InList(list, x) == \E i \in 1..Len(list) : list[i] = x

\* list.index(x): the 0-based position of the first element equal to x.
\* Only evaluated when InList(list, x); otherwise the call raises ValueError.
ListIndex(list, x) ==
    (CHOOSE i \in 1..Len(list) :
        list[i] = x /\ \A j \in 1..(i - 1) : list[j] # x) - 1

\* (i, w) < (j, v) on the tuples pushed at queue_redraw.  The first elements
\* decide unless they are equal; equal indexes come from the same window
\* object, for which tuple comparison finds no differing element: not less.
TupleLt_Reversed(a, b) == a.index > b.index

TupleLt(a, b) == a.index < b.index

----------------------------------------------------------------------------
(* heapq, on 0-based positions of a 1-based sequence *)

At(heap, pos) == heap[pos + 1]
Put(heap, pos, item) == [heap EXCEPT ![pos + 1] = item]

\* _siftdown without its final store: the moved parents stay, newitem is lost.
RECURSIVE SiftDownLoop_NoStore(_, _, _, _)
SiftDownLoop_NoStore(heap, startpos, pos, newitem) ==
    IF pos > startpos /\ TupleLt(newitem, At(heap, (pos - 1) \div 2))
    THEN SiftDownLoop_NoStore(Put(heap, pos, At(heap, (pos - 1) \div 2)),
                              startpos, (pos - 1) \div 2, newitem)
    ELSE heap

\* heapq._siftdown(heap, startpos, pos) with newitem already taken out.
RECURSIVE SiftDownLoop(_, _, _, _)
SiftDownLoop(heap, startpos, pos, newitem) ==
    IF pos > startpos
    THEN LET parentpos == (pos - 1) \div 2
             parent == At(heap, parentpos)
         IN IF TupleLt(newitem, parent)
            THEN SiftDownLoop(Put(heap, pos, parent), startpos, parentpos, newitem)
            ELSE Put(heap, pos, newitem)
    ELSE Put(heap, pos, newitem)

siftdown(heap, startpos, pos) == SiftDownLoop(heap, startpos, pos, At(heap, pos))

\* heapq._siftup(heap, pos): bubble the smaller child up to a leaf, then
\* sift newitem down from there.
RECURSIVE SiftUpLoop(_, _, _, _)
SiftUpLoop(heap, startpos, pos, newitem) ==
    LET endpos == Len(heap)
        leftpos == 2 * pos + 1
        rightpos == leftpos + 1
        childpos == IF rightpos < endpos
                       /\ ~TupleLt(At(heap, leftpos), At(heap, rightpos))
                    THEN rightpos ELSE leftpos
    IN IF leftpos < endpos
       THEN SiftUpLoop(Put(heap, pos, At(heap, childpos)), startpos, childpos, newitem)
       ELSE siftdown(Put(heap, pos, newitem), startpos, pos)

siftup(heap, pos) == SiftUpLoop(heap, pos, pos, At(heap, pos))

\* A push that only appends.
heappush_NoSift(heap, item) == Append(heap, item)

\* A push that skips an item the heap already holds.
heappush_Dedup(heap, item) ==
    IF InList(heap, item) THEN heap ELSE siftdown(Append(heap, item), 0, Len(heap))

\* heapq.heappush(heap, item): append, then restore the heap invariant.
heappush(heap, item) == siftdown(Append(heap, item), 0, Len(heap))

\* A pop that moves the last item to the root and does not sift it.
heappop_NoSiftUp(heap) ==
    IF Len(heap) > 1
    THEN [item |-> heap[1],
          heap |-> Put(SubSeq(heap, 1, Len(heap) - 1), 0, heap[Len(heap)])]
    ELSE [item |-> heap[1], heap |-> <<>>]

\* A pop that reads the smallest item and leaves it in the heap.
heappop_Peek(heap) == [item |-> heap[1], heap |-> heap]

\* heapq.heappop(heap) on a non-empty heap: the smallest item and the heap
\* left behind.
heappop(heap) ==
    LET lastelt == heap[Len(heap)]
        rest == SubSeq(heap, 1, Len(heap) - 1)
    IN IF rest # <<>>
       THEN [item |-> rest[1], heap |-> siftup(Put(rest, 0, lastelt), 0)]
       ELSE [item |-> lastelt, heap |-> rest]

----------------------------------------------------------------------------
(* WindowManager *)

Call(op, window) == [op |-> op, window |-> window]

\* WindowManager.__init__
Init ==
    /\ windows = Registry
    /\ is_recompose_main = FALSE
    /\ redraw_queue = <<>>
    /\ screen = <<>>
    /\ last_call = Call("__init__", NoWindow)
    /\ raised = NoError
    /\ requests = <<>>
    /\ served = <<>>

\* A queue entry keyed by a 1-based position.
QueueItem_OneBased(window) ==
    [index |-> ListIndex(windows, window) + 1, window |-> window]

\* The tuple queue_redraw pushes for a registered window.
QueueItem(window) == [index |-> ListIndex(windows, window), window |-> window]

\* queue_redraw with a lookup that answers -1 instead of raising.
queue_redraw_NoLookupError(window) ==
    /\ last_call' = Call("queue_redraw", window)
    /\ screen' = <<>>
    /\ Len(redraw_queue) < MaxQueue
    /\ redraw_queue' = heappush(redraw_queue,
           [index |-> IF InList(windows, window) THEN ListIndex(windows, window) ELSE -1,
            window |-> window])
    /\ requests' = IF InList(windows, window) THEN Append(requests, window) ELSE requests
    /\ raised' = NoError
    /\ served' = <<>>
    /\ UNCHANGED <<windows, is_recompose_main>>

\* queue_redraw that also raises the window to the top of self.windows.
queue_redraw_RaisesWindow(window) ==
    /\ last_call' = Call("queue_redraw", window)
    /\ screen' = <<>>
    /\ IF InList(windows, window)
       THEN /\ Len(redraw_queue) < MaxQueue
            /\ redraw_queue' = heappush(redraw_queue, QueueItem(window))
            /\ requests' = Append(requests, window)
            /\ windows' = Append(SelectSeq(windows, LAMBDA w : w # window), window)
            /\ raised' = NoError
       ELSE /\ raised' = ValueError
            /\ UNCHANGED <<redraw_queue, requests, windows>>
    /\ served' = <<>>
    /\ UNCHANGED is_recompose_main

\* queue_redraw that paints the window at once.
queue_redraw_Immediate(window) ==
    /\ last_call' = Call("queue_redraw", window)
    /\ IF InList(windows, window)
       THEN /\ Len(redraw_queue) < MaxQueue
            /\ redraw_queue' = heappush(redraw_queue, QueueItem(window))
            /\ requests' = Append(requests, window)
            /\ screen' = <<window, DOUPDATE>>
            /\ raised' = NoError
       ELSE /\ raised' = ValueError
            /\ screen' = <<>>
            /\ UNCHANGED <<redraw_queue, requests>>
    /\ served' = <<>>
    /\ UNCHANGED <<windows, is_recompose_main>>

\* WindowManager.queue_redraw(window)
queue_redraw(window) ==
    /\ last_call' = Call("queue_redraw", window)
    /\ screen' = <<>>
    /\ IF InList(windows, window)
       THEN /\ Len(redraw_queue) < MaxQueue
            /\ redraw_queue' = heappush(redraw_queue, QueueItem(window))
            /\ requests' = Append(requests, window)
            /\ raised' = NoError
       ELSE \* self.windows.index(window) raises before anything is pushed
            /\ raised' = ValueError
            /\ UNCHANGED <<redraw_queue, requests>>
    /\ served' = <<>>
    /\ UNCHANGED <<windows, is_recompose_main>>

\* redraw_all walking the list top to bottom.
RedrawAllCalls_TopDown(ws) == [i \in 1..Len(ws) |-> ws[Len(ws) + 1 - i]] \o <<DOUPDATE>>

\* The backend calls of redraw_all: every window's noutrefresh, then doupdate.
RedrawAllCalls(ws) == ws \o <<DOUPDATE>>

\* redraw_all that also discards the pending queue.
redraw_all_ClearsQueue ==
    /\ last_call' = Call("redraw_all", NoWindow)
    /\ screen' = RedrawAllCalls(windows)
    /\ raised' = NoError
    /\ served' = <<>>
    /\ redraw_queue' = <<>>
    /\ UNCHANGED <<windows, is_recompose_main, requests>>

\* WindowManager.redraw_all()
redraw_all ==
    /\ last_call' = Call("redraw_all", NoWindow)
    /\ screen' = RedrawAllCalls(windows)
    /\ raised' = NoError
    /\ served' = <<>>
    /\ UNCHANGED <<windows, is_recompose_main, redraw_queue, requests>>

\* The while loop of redraw_queued: pop until the heap is empty, calling
\* noutrefresh on each popped window.
RECURSIVE PopAll(_)
PopAll(heap) ==
    IF heap = <<>>
    THEN <<>>
    ELSE LET popped == heappop(heap)
         IN <<popped.item.window>> \o PopAll(popped.heap)

\* redraw_queued that skips doupdate when nothing was queued.
RedrawQueuedCalls_SkipEmpty(heap) ==
    IF heap = <<>> THEN <<>> ELSE PopAll(heap) \o <<DOUPDATE>>

\* The backend calls of redraw_queued: the loop's noutrefreshes, then doupdate.
RedrawQueuedCalls(heap) == PopAll(heap) \o <<DOUPDATE>>

\* redraw_queued that walks the queue without emptying it.
QueueAfterRedrawQueued_Keep(heap) == heap

\* self._redraw_queue after redraw_queued: popped empty, then reset to [].
QueueAfterRedrawQueued(heap) == <<>>

\* redraw_queued that treats the flush as the recomposition and clears the flag.
redraw_queued_ClearsFlag ==
    /\ last_call' = Call("redraw_queued", NoWindow)
    /\ screen' = RedrawQueuedCalls(redraw_queue)
    /\ redraw_queue' = QueueAfterRedrawQueued(redraw_queue)
    /\ requests' = <<>>
    /\ served' = requests
    /\ raised' = NoError
    /\ is_recompose_main' = FALSE
    /\ UNCHANGED windows

\* WindowManager.redraw_queued()
redraw_queued ==
    /\ last_call' = Call("redraw_queued", NoWindow)
    /\ screen' = RedrawQueuedCalls(redraw_queue)
    /\ redraw_queue' = QueueAfterRedrawQueued(redraw_queue)
    /\ requests' = <<>>
    /\ served' = requests
    /\ raised' = NoError
    /\ UNCHANGED <<windows, is_recompose_main>>

Next ==
    \/ \E window \in Handles : queue_redraw(window)
    \/ redraw_all
    \/ redraw_queued

Spec == Init /\ [][Next]_vars

----------------------------------------------------------------------------
(* redraw_queued, one loop iteration at a time *)

\* Control is inside the while loop of redraw_queued.
InLoop == last_call.op = "redraw_queued:while"

\* redraw_queued is entered: nothing is popped yet.
redraw_queued_enter ==
    /\ ~InLoop
    /\ last_call' = Call("redraw_queued:while", NoWindow)
    /\ screen' = <<>>
    /\ requests' = <<>>
    /\ served' = requests
    /\ raised' = NoError
    /\ UNCHANGED <<windows, is_recompose_main, redraw_queue>>

\* One iteration of the while loop: pop the smallest entry, noutrefresh it.
redraw_queued_pop ==
    /\ InLoop
    /\ redraw_queue # <<>>
    /\ redraw_queue' = heappop(redraw_queue).heap
    /\ screen' = Append(screen, heappop(redraw_queue).item.window)
    /\ UNCHANGED <<windows, is_recompose_main, last_call, raised, requests, served>>

\* The loop condition is false: reset the queue, doupdate, return.
redraw_queued_return ==
    /\ InLoop
    /\ redraw_queue = <<>>
    /\ redraw_queue' = <<>>
    /\ screen' = Append(screen, DOUPDATE)
    /\ last_call' = Call("redraw_queued", NoWindow)
    /\ UNCHANGED <<windows, is_recompose_main, raised, requests, served>>

\* The calls run one at a time: no call starts while redraw_queued runs.
NextSteps ==
    \/ ~InLoop /\ \E window \in Handles : queue_redraw(window)
    \/ ~InLoop /\ redraw_all
    \/ redraw_queued_enter
    \/ redraw_queued_pop
    \/ redraw_queued_return

\* A started redraw_queued runs on: the code is synchronous and its loop
\* body never waits.
SpecSteps ==
    /\ Init
    /\ [][NextSteps]_vars
    /\ WF_vars(redraw_queued_pop)
    /\ WF_vars(redraw_queued_return)

----------------------------------------------------------------------------
(* The WindowManager together with a caller that writes is_recompose_main *)

\* A caller assigns window_manager.is_recompose_main = value.  No method of
\* WindowManager runs, so no backend call is made.
set_is_recompose_main(value) ==
    /\ is_recompose_main' = value
    /\ last_call' = Call("is_recompose_main=", NoWindow)
    /\ screen' = <<>>
    /\ served' = <<>>
    /\ raised' = NoError
    /\ UNCHANGED <<windows, redraw_queue, requests>>

NextExternal ==
    \/ \E window \in Handles : queue_redraw(window)
    \/ redraw_all
    \/ redraw_queued
    \/ \E value \in BOOLEAN : set_is_recompose_main(value)

SpecExternal == Init /\ [][NextExternal]_vars

----------------------------------------------------------------------------
(* Vocabulary of the properties *)

\* The noutrefresh calls of a backend log, in order.
Refreshes(log) == SelectSeq(log, LAMBDA c : c # DOUPDATE)

\* How often x occurs in seq.
Count(seq, x) == Cardinality({i \in 1..Len(seq) : seq[i] = x})

\* How many entries of the redraw queue hold window w.
QueueCount(w) == Cardinality({i \in 1..Len(redraw_queue) : redraw_queue[i].window = w})

\* The most recent call was redraw_queued / redraw_all.
Flushed == last_call.op = "redraw_queued"
RedrewAll == last_call.op = "redraw_all"

\* seq with every run of equal neighbours collapsed to one element.
RECURSIVE Collapse(_)
Collapse(seq) ==
    IF Len(seq) <= 1 THEN seq
    ELSE IF seq[1] = seq[2] THEN Collapse(Tail(seq))
    ELSE <<seq[1]>> \o Collapse(Tail(seq))

\* The methods of WindowManager.
Methods == {"queue_redraw", "redraw_all", "redraw_queued"}

\* seq is ordered bottom to top: no element lies above a later one.
BottomToTop(seq) ==
    \A i, j \in 1..Len(seq) :
        i < j => ListIndex(windows, seq[i]) <= ListIndex(windows, seq[j])

\* The reference scheduler of the design notes: collect the requests into a
\* set, walk the registry in its fixed order, emit the members of the set.
ReferenceSchedule(reqs) == SelectSeq(windows, LAMBDA w : InList(reqs, w))

----------------------------------------------------------------------------
(* C1 *)

----------------------------------------------------------------------------
(* C2 *)

----------------------------------------------------------------------------
(* C3 *)

\* C3: a redraw_queued or redraw_all call makes exactly one doupdate call,
\* and it is the last backend call of that call.
C3_CommitOnceLast ==
    (Flushed \/ RedrewAll) =>
        /\ Count(screen, DOUPDATE) = 1
        /\ screen[Len(screen)] = DOUPDATE

\* A flush of several queued windows, committed after the last of them.
C3_Witness ==
    /\ Flushed
    /\ Len(Refreshes(screen)) >= 2
    /\ screen[Len(screen)] = DOUPDATE

----------------------------------------------------------------------------
(* C4 *)

\* C4: redraw_all refreshes root, container, viewport, status, each once and
\* in that order, whatever the redraw queue holds.
C4_RedrawAllComplete ==
    RedrewAll =>
        Refreshes(screen)
            = <<"stdscr", "container_window", "main_window", "status_window">>

\* redraw_all ran while requests were pending.
C4_Witness ==
    /\ RedrewAll
    /\ Len(redraw_queue) >= 2
    /\ Len(Refreshes(screen)) = 4

----------------------------------------------------------------------------
(* C5 *)

\* C5: every redraw_queued leaves the redraw queue empty, and one that
\* starts with the queue empty makes no noutrefresh call.
C5_DrainedAndEmptyFlush ==
    [][last_call'.op = "redraw_queued" =>
          /\ redraw_queue' = <<>>
          /\ (redraw_queue = <<>> => Refreshes(screen') = <<>>)]_vars

\* A flush that found nothing to drain.
C5_Witness ==
    /\ Flushed
    /\ served = <<>>
    /\ Refreshes(screen) = <<>>
    /\ redraw_queue = <<>>

----------------------------------------------------------------------------
(* C6 *)

\* C6: queue_redraw of a window that is not in self.windows raises and
\* leaves the redraw queue as it was; a redraw_queued refreshes only windows
\* that were queued successfully.
C6_UnknownWindowRejected ==
    [][/\ (last_call'.op = "queue_redraw" /\ ~InList(windows, last_call'.window))
          => (raised' = ValueError /\ redraw_queue' = redraw_queue)
       /\ last_call'.op = "redraw_queued"
          => \A i \in 1..Len(Refreshes(screen')) :
                InList(requests, Refreshes(screen')[i])]_vars

\* An unregistered window was rejected while requests were pending.
C6_Witness ==
    /\ last_call = Call("queue_redraw", "select_window")
    /\ raised = ValueError
    /\ redraw_queue # <<>>

----------------------------------------------------------------------------
(* C7 *)

\* C7: redraw_all leaves the redraw queue unchanged, and every window
\* queued before it is among those the next redraw_queued refreshes.
C7_RedrawAllKeepsQueue ==
    [][last_call'.op = "redraw_all" =>
          /\ redraw_queue' = redraw_queue
          /\ \A w \in Handles :
                Count(requests, w) >= 1 => Count(PopAll(redraw_queue'), w) >= 1]_vars

\* redraw_all ran with a request still pending afterwards.
C7_Witness ==
    /\ RedrewAll
    /\ requests # <<>>
    /\ \A w \in Handles : Count(requests, w) = QueueCount(w)

----------------------------------------------------------------------------
(* C8 *)

\* C8: a queue_redraw call, successful or not, makes no backend call and
\* leaves self.windows (and the recompose flag) unchanged.
C8_QueueNoOutput ==
    [][last_call'.op = "queue_redraw" =>
          /\ screen' = <<>>
          /\ windows' = windows
          /\ is_recompose_main' = is_recompose_main]_vars

\* A successful queue_redraw right after a call that did paint.
C8_Witness ==
    /\ last_call.op = "queue_redraw"
    /\ raised = NoError
    /\ screen = <<>>
    /\ Len(redraw_queue) >= 2

----------------------------------------------------------------------------
(* C9 *)

----------------------------------------------------------------------------
(* C10 *)

----------------------------------------------------------------------------
(* C11 *)

----------------------------------------------------------------------------
(* C12 *)

\* C12: self.windows is [stdscr, container, main, status] in every reachable
\* state, so every window keeps its index 0, 1, 2, 3 through any sequence of
\* queue_redraw, redraw_queued and redraw_all calls.
C12_RegistryFixed ==
    /\ windows = <<"stdscr", "container_window", "main_window", "status_window">>
    /\ ListIndex(windows, "stdscr") = 0
    /\ ListIndex(windows, "container_window") = 1
    /\ ListIndex(windows, "main_window") = 2
    /\ ListIndex(windows, "status_window") = 3

\* Windows were queued and flushed, and the list is as constructed.
C12_Witness ==
    /\ Flushed
    /\ Len(served) >= 2
    /\ windows[Len(windows)] = "status_window"

----------------------------------------------------------------------------
(* C13 *)

\* C13: every entry of the redraw queue holds a window of self.windows,
\* together with that window's position in self.windows.
C13_QueueEntriesRegistered ==
    \A i \in 1..Len(redraw_queue) :
        /\ InList(windows, redraw_queue[i].window)
        /\ redraw_queue[i].index = ListIndex(windows, redraw_queue[i].window)

\* The queue holds entries for different windows, after a rejected request.
C13_Witness ==
    /\ Len(redraw_queue) >= 3
    /\ \E i, j \in 1..Len(redraw_queue) :
          redraw_queue[i].window # redraw_queue[j].window
    /\ raised = ValueError

----------------------------------------------------------------------------
(* C14 *)

\* C14: the noutrefresh sequence of a redraw_queued is a permutation of the
\* successful queue_redraw requests since the previous redraw_queued (one
\* refresh per request, none lost, none invented), ordered bottom to top,
\* also when a window was queued more than once.
C14_SortedPermutation ==
    Flushed =>
        /\ Len(Refreshes(screen)) = Len(served)
        /\ \A w \in Handles : Count(Refreshes(screen), w) = Count(served, w)
        /\ BottomToTop(Refreshes(screen))

\* Four requests out of order, one window twice, flushed bottom to top.
C14_Witness ==
    /\ Flushed
    /\ served = <<"status_window", "main_window", "stdscr", "main_window">>
    /\ Refreshes(screen) = <<"stdscr", "main_window", "main_window", "status_window">>

----------------------------------------------------------------------------
(* C15 *)

\* C15: is_recompose_main is False after construction; queue_redraw,
\* redraw_all and redraw_queued leave it unchanged, so only a caller's
\* assignment changes it; and whatever its value, redraw_all refreshes
\* self.windows and redraw_queued refreshes the queued requests bottom to top.
C15_FlagUntouchedAndUnread ==
    /\ [](last_call.op = "__init__" => is_recompose_main = FALSE)
    /\ [][
          /\ (last_call'.op \in Methods) => (is_recompose_main' = is_recompose_main)
          /\ (last_call'.op = "redraw_all") => (Refreshes(screen') = windows)
          /\ (last_call'.op = "redraw_queued") =>
                /\ \A w \in Handles :
                      Count(Refreshes(screen'), w) = Count(requests, w)
                /\ BottomToTop(Refreshes(screen'))
       ]_vars

\* A flush of pending requests while the caller has the flag set.
C15_Witness ==
    /\ is_recompose_main = TRUE
    /\ Flushed
    /\ Len(served) >= 2
====
